---- MODULE Spec2Model ----
(***************************************************************************)
(* sfen-rs: a codec for the SFEN notation of shogi positions and moves.    *)
(* decode (src/src/decode.rs) parses a text into (Position, moves);        *)
(* encode (src/src/encode.rs) writes the text of a (Position, moves).      *)
(* A text is a sequence of one-character strings.                          *)
(***************************************************************************)
EXTENDS Integers, Sequences, FiniteSets, TLC

VARIABLES
    pc,               \* which call is in progress and how far it got
    arg,              \* the argument of the call in progress
    pos,              \* characters consumed by the scanner's `for c in ...chars()`
    state,            \* the scanner's local `State` struct
    ret,              \* the value the call returned
    overflow_checks,  \* the build profile: TRUE = debug (overflow panics), FALSE = release (wraps)
    sfen_from,        \* tests::roundtrip: the text handed to decode
    decoded,          \* tests::roundtrip: the result of decode(sfen_from)
    sfen_to           \* tests::roundtrip: encode of the decoded value

vars == <<pc, arg, pos, state, ret, overflow_checks, sfen_from, decoded, sfen_to>>

(***************************************************************************)
(* Characters.  Ascii[i] is the character with code 31 + i (code 96 is     *)
(* spelled out: the lexer takes no grave accent inside a string).          *)
(***************************************************************************)
Ascii ==
    <<" ", "!", "\"", "#", "$", "%", "&", "'", "(", ")", "*", "+", ",", "-", ".", "/",
         "0", "1", "2", "3", "4", "5", "6", "7", "8", "9", ":", ";", "<", "=", ">", "?",
         "@", "A", "B", "C", "D", "E", "F", "G", "H", "I", "J", "K", "L", "M", "N", "O",
         "P", "Q", "R", "S", "T", "U", "V", "W", "X", "Y", "Z", "[", "\\", "]", "^", "_",
         "<grave>", "a", "b", "c", "d", "e", "f", "g", "h", "i", "j", "k", "l", "m", "n", "o",
         "p", "q", "r", "s", "t", "u", "v", "w", "x", "y", "z", "{", "|", "}", "~" >>

AsciiSet == {Ascii[i] : i \in 1..Len(Ascii)}

CodeTable == [c \in AsciiSet |-> 31 + (CHOOSE i \in 1..Len(Ascii) : Ascii[i] = c)]

\* `c as u8`
CharCode(c) == CodeTable[c]

\* `char::from(n)`
CharFrom(n) == Ascii[n - 31]

is_ascii_uppercase(c) == CharCode(c) >= 65 /\ CharCode(c) <= 90

is_ascii_lowercase(c) == CharCode(c) >= 97 /\ CharCode(c) <= 122

to_ascii_uppercase(c) == IF is_ascii_lowercase(c) THEN CharFrom(CharCode(c) - 32) ELSE c

to_ascii_lowercase(c) == IF is_ascii_uppercase(c) THEN CharFrom(CharCode(c) + 32) ELSE c

\* `'0'..='9'`
IsDigit(c) == CharCode(c) >= 48 /\ CharCode(c) <= 57

\* `c.to_digit(10)` on a decimal digit
to_digit(c) == CharCode(c) - 48

\* `std::char::from_digit(n, 10)`: None unless n < 10
from_digit(n) == IF n < 10 THEN [kind |-> "Some", val |-> CharFrom(48 + n)] ELSE [kind |-> "None"]

RECURSIVE MapLower(_)
\* `str::to_ascii_lowercase`
MapLower(s) == IF s = <<>> THEN <<>> ELSE <<to_ascii_lowercase(Head(s))>> \o MapLower(Tail(s))

RECURSIVE UIntToString(_)
\* `to_string` of a non-negative integer
UIntToString(n) ==
    IF n < 10 THEN <<CharFrom(48 + n)>>
    ELSE UIntToString(n \div 10) \o <<CharFrom(48 + (n % 10))>>

(***************************************************************************)
(* Results, options and panics.                                            *)
(***************************************************************************)
Ok(v) == [kind |-> "Ok", val |-> v]

\* Error::decode_error(msg); the formatted offending text is kept in `what`
Err(msg, what) == [kind |-> "Err", msg |-> msg, what |-> what]

Panic(msg) == [kind |-> "Panic", msg |-> msg]

Some(v) == [kind |-> "Some", val |-> v]

None == [kind |-> "None"]

(***************************************************************************)
(* Data model (src/src/lib.rs).                                            *)
(***************************************************************************)
Side == {"Sente", "Gote"}

\* `side as usize`
SideIdx(side) == IF side = "Sente" THEN 0 ELSE 1

PieceTypeSeq ==
    << "Pawn", "Lance", "Knight", "Silver", "Bishop", "Rook", "Gold", "King",
       "ProPawn", "ProLance", "ProKnight", "ProSilver", "Horse", "Dragon" >>

PieceType == {PieceTypeSeq[i] : i \in 1..Len(PieceTypeSeq)}

\* `pt as usize`
PtIdx(pt) == (CHOOSE i \in 1..Len(PieceTypeSeq) : PieceTypeSeq[i] = pt) - 1

is_hand(pt) == pt \in {"Pawn", "Lance", "Knight", "Silver", "Bishop", "Rook", "Gold"}

to_promoted(pt) ==
    CASE pt = "Pawn"   -> Some("ProPawn")
      [] pt = "Lance"  -> Some("ProLance")
      [] pt = "Knight" -> Some("ProKnight")
      [] pt = "Silver" -> Some("ProSilver")
      [] pt = "Bishop" -> Some("Horse")
      [] pt = "Rook"   -> Some("Dragon")
      [] OTHER         -> None

Empty == [cell |-> "Empty"]

Piece(side, pt) == [cell |-> "Piece", side |-> side, pt |-> pt]

xy2idx(x, y) == 9 * y + x

\* Square::new: panics when x or y is out of range
Square_new(x, y) == IF x >= 9 \/ y >= 9 THEN Panic("square out of range") ELSE Ok(xy2idx(x, y))

\* Square::x via SQ_TO_X
Square_x(sq) == sq % 9

\* Square::y via SQ_TO_Y
Square_y(sq) == sq \div 9

Hand_empty == [i \in 0..6 |-> 0]

Hand_is_empty(hand) == \A i \in 0..6 : hand[i] = 0

Hand_count(hand, pt) == hand[PtIdx(pt)]

Position_new(side, board, hand_sente, hand_gote, ply) ==
    [side |-> side, board |-> board, hands |-> <<hand_sente, hand_gote>>, ply |-> ply]

Move_nondrop(src, dst, is_promotion) ==
    [mv |-> "Nondrop", src |-> src, dst |-> dst, is_promotion |-> is_promotion]

Move_drop(pt, dst) == [mv |-> "Drop", pt |-> pt, dst |-> dst]

\* the `?` operator: the value of an Ok result goes on to F, anything else is returned
Try(r, F(_)) == IF r.kind = "Ok" THEN F(r.val) ELSE r

\* `let v = ...;` followed by F
Let(v, F(_)) == F(v)

(***************************************************************************)
(* Encoder (src/src/encode.rs).  encode returns a String; the model wraps  *)
(* it as Ok(text) so that the `expect` in flush_emptys, the encoder's only *)
(* panic, has a value to return.                                           *)
(***************************************************************************)
encode_pt(pt) ==
    CASE pt = "Pawn"      -> <<"P">>
      [] pt = "Lance"     -> <<"L">>
      [] pt = "Knight"    -> <<"N">>
      [] pt = "Silver"    -> <<"S">>
      [] pt = "Bishop"    -> <<"B">>
      [] pt = "Rook"      -> <<"R">>
      [] pt = "Gold"      -> <<"G">>
      [] pt = "King"      -> <<"K">>
      [] pt = "ProPawn"   -> <<"+", "P">>
      [] pt = "ProLance"  -> <<"+", "L">>
      [] pt = "ProKnight" -> <<"+", "N">>
      [] pt = "ProSilver" -> <<"+", "S">>
      [] pt = "Horse"     -> <<"+", "B">>
      [] pt = "Dragon"    -> <<"+", "R">>

\* a variant of encode_piece that forgets the lowercase folding of the second side
encode_piece_NoFold(side, pt) == encode_pt(pt)

encode_piece(side, pt) ==
    IF side = "Sente" THEN encode_pt(pt) ELSE MapLower(encode_pt(pt))

\* encode_board_row::State::new
EncRowState_new == [s_row |-> <<>>, n_empty |-> 0, idx |-> 0]

\* encode_board_row::State::flush_emptys; `expect` panics when from_digit gives None
flush_emptys(st) ==
    IF st.n_empty > 0
    THEN IF from_digit(st.n_empty).kind = "None"
         THEN Panic("internal error")
         ELSE Ok([st EXCEPT !.s_row = Append(@, from_digit(st.n_empty).val), !.n_empty = 0])
    ELSE Ok(st)

\* the end of State::eat: `self.idx += 1; if self.idx == 9 { self.flush_emptys(); }`
enc_row_advance(st) ==
    IF st.idx + 1 = 9
    THEN flush_emptys([st EXCEPT !.idx = @ + 1])
    ELSE Ok([st EXCEPT !.idx = @ + 1])

\* encode_board_row::State::eat
enc_row_eat(st, cell) ==
    IF cell.cell = "Empty"
    THEN enc_row_advance([st EXCEPT !.n_empty = @ + 1])
    ELSE Try(flush_emptys(st),
             LAMBDA f : enc_row_advance([f EXCEPT !.s_row = @ \o encode_piece(cell.side, cell.pt)]))

RECURSIVE enc_row_loop(_, _, _)
\* `for cell in row { state.eat(cell) }`; row is a 9-cell chunk indexed 0..8
enc_row_loop(st, row, i) ==
    IF i = 9 THEN Ok(st)
    ELSE Try(enc_row_eat(st, row[i]), LAMBDA st1 : enc_row_loop(st1, row, i + 1))

encode_board_row(row) ==
    Try(enc_row_loop(EncRowState_new, row, 0), LAMBDA st : Ok(st.s_row))

\* `board.0.chunks(9)`: the y-th chunk
BoardChunk(board, y) == [i \in 0..8 |-> board[9 * y + i]]

RECURSIVE JoinFrom(_, _, _)
\* itertools `join` / slice `join`: parts[k..] separated by sep
JoinFrom(parts, sep, k) ==
    IF k > Len(parts) THEN <<>>
    ELSE IF k = Len(parts) THEN parts[k]
    ELSE parts[k] \o sep \o JoinFrom(parts, sep, k + 1)

Join(parts, sep) == JoinFrom(parts, sep, 1)

RECURSIVE encode_board_rows(_, _, _)
\* `board.0.chunks(9).map(encode_board_row)` from the y-th chunk on
encode_board_rows(board, y, acc) ==
    IF y = 9 THEN Ok(acc)
    ELSE Try(encode_board_row(BoardChunk(board, y)),
             LAMBDA s_row : encode_board_rows(board, y + 1, Append(acc, s_row)))

encode_board(board) ==
    Try(encode_board_rows(board, 0, <<>>), LAMBDA rows : Ok(Join(rows, <<"/">>)))

encode_side(side) == IF side = "Sente" THEN <<"b">> ELSE <<"w">>

\* the local const PTS of encode_hands
PTS == <<"Rook", "Bishop", "Gold", "Silver", "Knight", "Lance", "Pawn">>

\* one turn of the inner loop of encode_hands: the entry of n pieces pt of side
encode_hand_entry(side, pt, n) ==
    IF n = 0 THEN <<>>
    ELSE (IF n >= 2 THEN UIntToString(n) ELSE <<>>) \o encode_piece(side, pt)

RECURSIVE encode_hand_pts(_, _, _)
\* the inner loop of encode_hands: `for pt in PTS.iter()` from the k-th type on
encode_hand_pts(side, hand, k) ==
    IF k > Len(PTS) THEN <<>>
    ELSE encode_hand_entry(side, PTS[k], Hand_count(hand, PTS[k]))
         \o encode_hand_pts(side, hand, k + 1)

RECURSIVE encode_hands_ByType(_, _, _)
\* a loop over the piece types that writes both sides' entries of each type
encode_hands_ByType(hand_sente, hand_gote, k) ==
    IF k > Len(PTS) THEN <<>>
    ELSE encode_hand_entry("Sente", PTS[k], Hand_count(hand_sente, PTS[k]))
         \o encode_hand_entry("Gote", PTS[k], Hand_count(hand_gote, PTS[k]))
         \o encode_hands_ByType(hand_sente, hand_gote, k + 1)

\* a variant of encode_hands whose outer loop runs over the piece types
encode_hands_TypeMajor(hand_sente, hand_gote) ==
    IF Hand_is_empty(hand_sente) /\ Hand_is_empty(hand_gote) THEN <<"-">>
    ELSE encode_hands_ByType(hand_sente, hand_gote, 1)

encode_hands(hand_sente, hand_gote) ==
    IF Hand_is_empty(hand_sente) /\ Hand_is_empty(hand_gote) THEN <<"-">>
    ELSE encode_hand_pts("Sente", hand_sente, 1) \o encode_hand_pts("Gote", hand_gote, 1)

I32_MAX == 2147483647

I32_MIN == -I32_MAX - 1

RECURSIVE NegToString(_)
\* the digits of n <= 0, most significant first (no sign)
NegToString(n) ==
    IF n > -10 THEN <<CharFrom(48 - n)>>
    ELSE NegToString((n + 9) \div 10) \o <<CharFrom(48 - (n - 10 * ((n + 9) \div 10)))>>

\* `ply.to_string()` of an i32
encode_ply(ply) == IF ply < 0 THEN <<"-">> \o NegToString(ply) ELSE UIntToString(ply)

\* push_sq of encode_move
push_sq(s, sq) == s \o <<CharFrom(Square_x(sq) + 49), CharFrom(Square_y(sq) + 97)>>

encode_move(mv) ==
    IF mv.mv = "Nondrop"
    THEN push_sq(push_sq(<<>>, mv.src), mv.dst) \o (IF mv.is_promotion THEN <<"+">> ELSE <<>>)
    ELSE push_sq(encode_pt(mv.pt) \o <<"*">>, mv.dst)

Str_moves == <<"m", "o", "v", "e", "s">>

Str_sfen == <<"s", "f", "e", "n">>

Str_startpos == <<"s", "t", "a", "r", "t", "p", "o", "s">>

encode_moves(mvs) ==
    Join(<<Str_moves>> \o [k \in 1..Len(mvs) |-> encode_move(mvs[k])], <<" ">>)

encode_pos(p) ==
    Try(encode_board(p.board),
        LAMBDA s_board :
            Ok(Join(<<Str_sfen, s_board, encode_side(p.side),
                      encode_hands(p.hands[1], p.hands[2]), encode_ply(p.ply)>>, <<" ">>)))

encode(p, mvs) ==
    Try(encode_pos(p),
        LAMBDA s_pos : IF mvs = <<>> THEN Ok(s_pos)
                       ELSE Ok(Join(<<s_pos, encode_moves(mvs)>>, <<" ">>)))

(***************************************************************************)
(* Decoder (src/src/decode.rs).                                            *)
(***************************************************************************)
SFEN_STARTPOS ==
    << "s", "f", "e", "n", " ",
       "l", "n", "s", "g", "k", "g", "s", "n", "l", "/",
       "1", "r", "5", "b", "1", "/",
       "p", "p", "p", "p", "p", "p", "p", "p", "p", "/",
       "9", "/", "9", "/", "9", "/",
       "P", "P", "P", "P", "P", "P", "P", "P", "P", "/",
       "1", "B", "5", "R", "1", "/",
       "L", "N", "S", "G", "K", "G", "S", "N", "L", " ",
       "b", " ", "-", " ", "1" >>

char_to_pt(c) ==
    CASE c = "P" -> Some("Pawn")
      [] c = "L" -> Some("Lance")
      [] c = "N" -> Some("Knight")
      [] c = "S" -> Some("Silver")
      [] c = "B" -> Some("Bishop")
      [] c = "R" -> Some("Rook")
      [] c = "G" -> Some("Gold")
      [] c = "K" -> Some("King")
      [] OTHER   -> None

\* None, Some(<<side, pt>>), or the panic of the branch that is neither case
char_to_side_pt(c) ==
    Let(char_to_pt(to_ascii_uppercase(c)),
        LAMBDA pt : IF pt.kind = "None" THEN None
                    ELSE IF is_ascii_uppercase(c) THEN Some(<<"Sente", pt.val>>)
                    ELSE IF is_ascii_lowercase(c) THEN Some(<<"Gote", pt.val>>)
                    ELSE Panic("internal error"))

\* decode_board_row::State::new
RowState_new == [row |-> [i \in 0..8 |-> Empty], len |-> 0, promo |-> FALSE]

\* a variant of ensure_len_ok whose limit is off by one
ensure_len_ok_Off(st, len_add) ==
    IF st.len + len_add > 10 THEN Err("board row: overflow", <<>>) ELSE Ok(st)

ensure_len_ok(st, len_add) ==
    IF st.len + len_add > 9 THEN Err("board row: overflow", <<>>) ELSE Ok(st)

ensure_not_promo(st) ==
    IF st.promo THEN Err("board row: invalid '+'", <<>>) ELSE Ok(st)

\* `self.row[self.len] = BoardCell::Piece(side, pt); self.len += 1;` with the
\* promo flag reset; a write past the 9 cells panics
row_write(st, side, pt) ==
    IF st.len > 8 THEN Panic("index out of bounds")
    ELSE Ok([st EXCEPT !.row[st.len] = Piece(side, pt), !.len = @ + 1, !.promo = FALSE])

\* the piece arm of State::eat after ensure_len_ok: promote if a '+' is pending
row_put(st, side, pt, c) ==
    IF st.promo
    THEN IF to_promoted(pt).kind = "None"
         THEN Err("board row: not promotable piece", <<c>>)
         ELSE row_write(st, side, to_promoted(pt).val)
    ELSE row_write(st, side, pt)

\* decode_board_row::State::eat: Ok(the new state), the decode error, or a panic
row_eat(st, c) ==
    IF c = "+"
    THEN Try(ensure_len_ok(st, 1),
             LAMBDA s1 : Try(ensure_not_promo(s1),
                             LAMBDA s2 : Ok([s2 EXCEPT !.promo = TRUE])))
    ELSE IF CharCode(c) >= 49 /\ CharCode(c) <= 57
    THEN Try(ensure_not_promo(st),
             LAMBDA s1 : Try(ensure_len_ok(s1, to_digit(c)),
                             LAMBDA s2 : Ok([s2 EXCEPT !.len = @ + to_digit(c)])))
    ELSE Let(char_to_side_pt(c),
             LAMBDA sp : IF sp.kind = "Panic" THEN sp
                         ELSE IF sp.kind = "None" THEN Err("board row: invalid char", <<c>>)
                         ELSE Try(ensure_len_ok(st, 1),
                                  LAMBDA s1 : row_put(s1, sp.val[1], sp.val[2], c)))

RECURSIVE row_loop(_, _, _)
\* `for c in s_row.chars() { state.eat(c)?; }` from the i-th character on
row_loop(st, s_row, i) ==
    IF i > Len(s_row) THEN Ok(st)
    ELSE Try(row_eat(st, s_row[i]), LAMBDA st1 : row_loop(st1, s_row, i + 1))

decode_board_row(s_row) ==
    Try(row_loop(RowState_new, s_row, 1), LAMBDA st : Ok(st.row))

\* the least element of a non-empty set of integers
Min(S) == CHOOSE j \in S : \A k \in S : j <= k

RECURSIVE SplitFrom(_, _, _)
\* `str::split(sep)`: the segments of s[i..], one per separator plus the last
SplitFrom(s, sep, i) ==
    IF \A j \in i..Len(s) : s[j] # sep THEN <<SubSeq(s, i, Len(s))>>
    ELSE Let(Min({j \in i..Len(s) : s[j] = sep}),
             LAMBDA p : <<SubSeq(s, i, p - 1)>> \o SplitFrom(s, sep, p + 1))

Split(s, sep) == SplitFrom(s, sep, 1)

\* `cells[idx..idx + 9].copy_from_slice(&row)`: the slice panics past the 81 cells
copy_row(cells, idx, row) ==
    IF idx + 9 > 81 THEN Panic("range end index out of range")
    ELSE Ok([i \in 0..80 |-> IF i >= idx /\ i < idx + 9 THEN row[i - idx] ELSE cells[i]])

RECURSIVE board_loop(_, _, _)
\* `for (y, s_row) in it.enumerate()` of decode_board, from the y-th row on
board_loop(cells, rows, y) ==
    IF y >= Len(rows) THEN Ok(cells)
    ELSE Try(decode_board_row(rows[y + 1]),
             LAMBDA row : Try(copy_row(cells, 9 * y, row),
                              LAMBDA cells1 : board_loop(cells1, rows, y + 1)))

decode_board(s_board) ==
    board_loop([i \in 0..80 |-> Empty], Split(s_board, "/"), 0)

decode_side(s_side) ==
    IF s_side = <<"b">> THEN Ok("Sente")
    ELSE IF s_side = <<"w">> THEN Ok("Gote")
    ELSE Err("side: invalid string", s_side)

\* decode_hands::State::new
HandsState_new == [counts |-> [s \in 0..1 |-> [i \in 0..6 |-> 0]], cur |-> 0]

\* `+=` on u8: the sum when it fits; otherwise a panic with overflow checks on,
\* and the sum modulo 2^8 without
u8_add_assign(a, b) ==
    IF a + b <= 255 THEN Ok(a + b)
    ELSE IF overflow_checks THEN Panic("attempt to add with overflow")
    ELSE Ok((a + b) % 256)

\* the digit arm of decode_hands::State::eat: checked_mul(10), then checked_add
hands_digit(st, c) ==
    IF st.cur * 10 > 255 THEN Err("hands: overflow", <<>>)
    ELSE IF st.cur * 10 + to_digit(c) > 255 THEN Err("hands: overflow", <<>>)
    ELSE Ok([st EXCEPT !.cur = st.cur * 10 + to_digit(c)])

\* `self.counts[side as usize][pt as usize] += self.cur; self.cur = 0;`
hands_add(st, s, p, cur) ==
    Try(u8_add_assign(st.counts[s][p], cur),
        LAMBDA sum : Ok([st EXCEPT !.counts[s][p] = sum, !.cur = 0]))

\* the letter arm of decode_hands::State::eat
hands_letter(st, c, sp) ==
    IF sp.kind = "Panic" THEN sp
    ELSE IF sp.kind = "None" THEN Err("hands: invalid char", <<c>>)
    ELSE IF ~is_hand(sp.val[2]) THEN Err("hands: not hand piece", <<c>>)
    ELSE hands_add(st, SideIdx(sp.val[1]), PtIdx(sp.val[2]), IF st.cur = 0 THEN 1 ELSE st.cur)

\* decode_hands::State::eat: Ok(the new state), the decode error, or a panic
hands_eat(st, c) ==
    IF IsDigit(c) THEN hands_digit(st, c) ELSE hands_letter(st, c, char_to_side_pt(c))

RECURSIVE hands_loop(_, _, _)
\* `for c in s_hands.chars() { state.eat(c)?; }` from the i-th character on
hands_loop(st, s_hands, i) ==
    IF i > Len(s_hands) THEN Ok(st)
    ELSE Try(hands_eat(st, s_hands[i]), LAMBDA st1 : hands_loop(st1, s_hands, i + 1))

decode_hands(s_hands) ==
    IF s_hands = <<"-">> THEN Ok(<<Hand_empty, Hand_empty>>)
    ELSE Try(hands_loop(HandsState_new, s_hands, 1),
             LAMBDA st : Ok(<<st.counts[0], st.counts[1]>>))

RECURSIVE parse_digits(_, _, _, _)
\* the digit loop of `str::parse::<i32>`: acc accumulates towards the sign
parse_digits(s, i, acc, positive) ==
    IF i > Len(s) THEN Ok(acc)
    ELSE IF ~IsDigit(s[i]) THEN Err("ply: parse error", <<"invalid digit found in string">>)
    ELSE IF positive
    THEN IF acc > I32_MAX \div 10 \/ acc * 10 > I32_MAX - to_digit(s[i])
         THEN Err("ply: parse error", <<"number too large to fit in target type">>)
         ELSE parse_digits(s, i + 1, acc * 10 + to_digit(s[i]), positive)
    ELSE IF acc < -(I32_MAX \div 10) \/ acc * 10 < I32_MIN + to_digit(s[i])
         THEN Err("ply: parse error", <<"number too small to fit in target type">>)
         ELSE parse_digits(s, i + 1, acc * 10 - to_digit(s[i]), positive)

\* `s_ply.parse::<i32>()`
decode_ply(s_ply) ==
    IF s_ply = <<>> THEN Err("ply: parse error", <<"cannot parse integer from empty string">>)
    ELSE IF s_ply = <<"+">> \/ s_ply = <<"-">>
    THEN Err("ply: parse error", <<"invalid digit found in string">>)
    ELSE IF s_ply[1] = "-" THEN parse_digits(s_ply, 2, 0, FALSE)
    ELSE IF s_ply[1] = "+" THEN parse_digits(s_ply, 2, 0, TRUE)
    ELSE parse_digits(s_ply, 1, 0, TRUE)

chars_to_sq(cx, cy) ==
    IF ~(CharCode(cx) >= 49 /\ CharCode(cx) <= 57) THEN Err("square: invalid x", <<cx>>)
    ELSE IF ~(CharCode(cy) >= 97 /\ CharCode(cy) <= 105) THEN Err("square: invalid y", <<cy>>)
    ELSE Square_new(CharCode(cx) - 49, CharCode(cy) - 97)

\* the drop arm of decode_move
decode_move_drop(s_mv, cs, cs_len) ==
    IF cs_len # 4 THEN Err("move: invalid string", s_mv)
    ELSE IF char_to_pt(cs[0]).kind = "None" THEN Err("move: invalid piece", <<cs[0]>>)
    ELSE Try(chars_to_sq(cs[2], cs[3]), LAMBDA dst : Ok(Move_drop(char_to_pt(cs[0]).val, dst)))

\* the squares of the nondrop arm of decode_move
decode_move_squares(cs, cs_len) ==
    Try(chars_to_sq(cs[0], cs[1]),
        LAMBDA src : Try(chars_to_sq(cs[2], cs[3]),
                         LAMBDA dst : Ok(Move_nondrop(src, dst, cs_len = 5))))

\* a variant of decode_move_nondrop without the check of the 5th character
decode_move_nondrop_NoPlusCheck(s_mv, cs, cs_len) == decode_move_squares(cs, cs_len)

\* the nondrop arm of decode_move
decode_move_nondrop(s_mv, cs, cs_len) ==
    IF cs_len = 5 /\ cs[4] # "+" THEN Err("move: '+' expected", s_mv)
    ELSE decode_move_squares(cs, cs_len)

\* the 5-character buffer `cs` of decode_move, '\0' (written <nul>) past the token
move_chars(s_mv) == [i \in 0..4 |-> IF i < Len(s_mv) THEN s_mv[i + 1] ELSE "<nul>"]

\* the 6th character of a token fails `ensure!(cs_len < 5)`
decode_move(s_mv) ==
    IF Len(s_mv) > 5 THEN Err("move: invalid string", s_mv)
    ELSE IF ~(Len(s_mv) >= 4) THEN Err("move: invalid string", s_mv)
    ELSE IF move_chars(s_mv)[1] = "*"
    THEN decode_move_drop(s_mv, move_chars(s_mv), Len(s_mv))
    ELSE decode_move_nondrop(s_mv, move_chars(s_mv), Len(s_mv))

RECURSIVE moves_loop(_, _, _)
\* `tokens.map(decode_move).collect::<Result<Vec<_>>>()` from the k-th token on
moves_loop(tokens, k, acc) ==
    IF k > Len(tokens) THEN Ok(acc)
    ELSE Try(decode_move(tokens[k]), LAMBDA m : moves_loop(tokens, k + 1, Append(acc, m)))

tokens_to_moves(tokens) ==
    IF tokens = <<>> THEN Ok(<<>>)
    ELSE IF Head(tokens) # Str_moves THEN Err("moves: \"moves\" expected", <<>>)
    ELSE moves_loop(tokens, 2, <<>>)

is_ascii_whitespace(c) == c \in {" ", "\t", "\n", "\f", "\r"}

\* the last character of the token of s that starts at b
TokenEnd(s, b) == Min({j \in b..Len(s) : j = Len(s) \/ is_ascii_whitespace(s[j + 1])})

RECURSIVE TokensFrom(_, _)
\* `str::split_ascii_whitespace`: the maximal whitespace-free runs of s[i..]
TokensFrom(s, i) ==
    IF \A j \in i..Len(s) : is_ascii_whitespace(s[j]) THEN <<>>
    ELSE Let(Min({j \in i..Len(s) : ~is_ascii_whitespace(s[j])}),
             LAMBDA b : Let(TokenEnd(s, b),
                            LAMBDA e : <<SubSeq(s, b, e)>> \o TokensFrom(s, e + 1)))

split_ascii_whitespace(s) == TokensFrom(s, 1)

\* what is left of an iterator after n calls of next()
Rest(tokens, n) == IF n >= Len(tokens) THEN <<>> ELSE SubSeq(tokens, n + 1, Len(tokens))

\* the "sfen" arm of tokens_to_pos: tokens[1] is the magic
tokens_to_pos_sfen(tokens) ==
    IF Len(tokens) < 5 THEN Err("position: incomplete", <<>>)
    ELSE Try(decode_board(tokens[2]),
         LAMBDA board : Try(decode_side(tokens[3]),
         LAMBDA side  : Try(decode_hands(tokens[4]),
         LAMBDA hands : Try(decode_ply(tokens[5]),
         LAMBDA ply   : Ok(Position_new(side, board, hands[1], hands[2], ply))))))

\* a variant of tokens_to_pos whose "startpos" arm hands back the inner
\* iterator (the exhausted tokens of SFEN_STARTPOS) instead of the caller's
tokens_to_pos_InnerStream(tokens) ==
    IF tokens = <<>> THEN [res |-> Err("position: incomplete", <<>>), rest |-> <<>>]
    ELSE IF Head(tokens) = Str_startpos
    THEN [res |-> tokens_to_pos_sfen(split_ascii_whitespace(SFEN_STARTPOS)), rest |-> <<>>]
    ELSE IF Head(tokens) = Str_sfen
    THEN [res |-> tokens_to_pos_sfen(tokens), rest |-> Rest(tokens, 5)]
    ELSE [res |-> Err("position: invalid magic", Head(tokens)), rest |-> Rest(tokens, 1)]

RECURSIVE tokens_to_pos(_)
\* [res |-> the Result, rest |-> what the call leaves in the caller's iterator]
tokens_to_pos(tokens) ==
    IF tokens = <<>> THEN [res |-> Err("position: incomplete", <<>>), rest |-> <<>>]
    ELSE IF Head(tokens) = Str_startpos
    THEN [res  |-> tokens_to_pos(split_ascii_whitespace(SFEN_STARTPOS)).res,
          rest |-> Rest(tokens, 1)]
    ELSE IF Head(tokens) = Str_sfen
    THEN [res |-> tokens_to_pos_sfen(tokens), rest |-> Rest(tokens, 5)]
    ELSE [res |-> Err("position: invalid magic", Head(tokens)), rest |-> Rest(tokens, 1)]

\* decode continued once tokens_to_pos has returned p
decode_rest(p) ==
    Try(p.res, LAMBDA position : Try(tokens_to_moves(p.rest),
                                     LAMBDA mvs : Ok(<<position, mvs>>)))

decode(sfen) == decode_rest(tokens_to_pos(split_ascii_whitespace(sfen)))

(***************************************************************************)
(* Bounds and input alphabets of the checked calls.                        *)
(***************************************************************************)
MaxRowLen == 4

MaxHandsLen == 5

MaxTokLen == 6

\* every text of at most n characters over the alphabet A
Texts(A, n) == UNION {[1..k -> A] : k \in 0..n}

\* board rows: '+', digits, a promotable and an unpromotable letter, '0' (no row digit)
RowAlphabet == {"+", "1", "8", "9", "P", "k", "0"}

\* cells of the rows handed to encode_board_row
EncCells == {Empty, Piece("Sente", "Pawn"), Piece("Gote", "Dragon")}

\* hands: digits, hand letters of both sides, a king
HandsAlphabet == {"2", "5", "0", "P", "p", "K"}

\* hands strings beyond the alphabet: the empty hands, '-' and '+' inside a
\* string, a count that overflows in checked_add, every hand letter
HandsExtra ==
    { <<"-">>, <<"-", "-">>, <<"-", "P">>, <<"P", "-">>, <<"+", "P">>,
      <<"2", "5", "6", "P">>, <<"2", "5", "9">>, <<"1", "8", "p">>,
      <<"R", "B", "G", "S", "N", "L", "P">>, <<"r", "b", "g", "s", "n", "l", "p">>,
      <<"R", "r", "B", "b">>, <<"S", "b", "g", "n", "3", "p">>,
      <<"2", "0", "0", "P", "2", "0", "0", "P">>, <<"x">> }

\* hand counts handed to encode_hands, for Rook, Bishop and Pawn of either side
EncCounts == {0, 1, 2, 18}

MoveAlphabet == {"P", "p", "*", "5", "e", "+"}

\* tokens probing the edges of '1'..='9' and 'a'..='i'
EdgeTokens ==
    {<<cx, cy, "5", "e">> : cx \in {"0", "1", "9", ":"}, cy \in {"a", "i", "j", "A"}}
    \cup {<<l, "*", cx, cy>> : l \in {"K", "G", "k", "+"}, cx \in {"1", "9"}, cy \in {"a", "i"}}

(***************************************************************************)
(* The calls as state machines.  Every specification starts idle; a call   *)
(* action draws the argument, the scanners then consume one character per  *)
(* step, exactly as their `for c in ...chars()` loops do.                  *)
(***************************************************************************)
Init ==
    /\ pc = "idle"
    /\ arg = <<>>
    /\ pos = 0
    /\ state = <<>>
    /\ ret = None
    /\ overflow_checks \in BOOLEAN
    /\ sfen_from = <<>>
    /\ decoded = None
    /\ sfen_to = None

\* decode_board_row(s_row): State::new()
DecodeBoardRowCall ==
    /\ pc = "idle"
    /\ pc' = "row_scan"
    /\ \E s_row \in Texts(RowAlphabet, MaxRowLen) : arg' = s_row
    /\ pos' = 0
    /\ state' = RowState_new
    /\ UNCHANGED <<ret, overflow_checks, sfen_from, decoded, sfen_to>>

\* one turn of the loop of decode_board_row: state.eat(c)?
RowEat ==
    /\ pc = "row_scan"
    /\ pos < Len(arg)
    /\ LET r == row_eat(state, arg[pos + 1])
       IN  IF r.kind = "Ok"
           THEN /\ state' = r.val
                /\ pos' = pos + 1
                /\ UNCHANGED <<pc, ret>>
           ELSE /\ ret' = r
                /\ pc' = "row_done"
                /\ UNCHANGED <<state, pos>>
    /\ UNCHANGED <<arg, overflow_checks, sfen_from, decoded, sfen_to>>

\* the end of decode_board_row: Ok(state.row)
RowReturn ==
    /\ pc = "row_scan"
    /\ pos = Len(arg)
    /\ ret' = Ok(state.row)
    /\ pc' = "row_done"
    /\ UNCHANGED <<arg, pos, state, overflow_checks, sfen_from, decoded, sfen_to>>

\* encode_board_row(row)
EncodeBoardRowCall ==
    /\ pc = "idle"
    /\ pc' = "row_encoded"
    /\ \E row \in [0..8 -> EncCells] :
           /\ arg' = row
           /\ ret' = encode_board_row(row)
    /\ UNCHANGED <<pos, state, overflow_checks, sfen_from, decoded, sfen_to>>

NextRow ==
    \/ DecodeBoardRowCall
    \/ RowEat
    \/ RowReturn
    \/ EncodeBoardRowCall

SpecRow == Init /\ [][NextRow]_vars

\* decode_hands(s_hands): the "-" shortcut, else State::new()
DecodeHandsCall ==
    /\ pc = "idle"
    /\ \E s_hands \in Texts(HandsAlphabet, MaxHandsLen) \cup HandsExtra :
           /\ Len(s_hands) > 0
           /\ arg' = s_hands
           /\ IF s_hands = <<"-">>
              THEN /\ pc' = "hands_done"
                   /\ ret' = Ok(<<Hand_empty, Hand_empty>>)
                   /\ UNCHANGED state
              ELSE /\ pc' = "hands_scan"
                   /\ state' = HandsState_new
                   /\ UNCHANGED ret
    /\ pos' = 0
    /\ UNCHANGED <<overflow_checks, sfen_from, decoded, sfen_to>>

\* one turn of the loop of decode_hands: state.eat(c)?
HandsEat ==
    /\ pc = "hands_scan"
    /\ pos < Len(arg)
    /\ LET r == hands_eat(state, arg[pos + 1])
       IN  IF r.kind = "Ok"
           THEN /\ state' = r.val
                /\ pos' = pos + 1
                /\ UNCHANGED <<pc, ret>>
           ELSE /\ ret' = r
                /\ pc' = "hands_done"
                /\ UNCHANGED <<state, pos>>
    /\ UNCHANGED <<arg, overflow_checks, sfen_from, decoded, sfen_to>>

\* the end of decode_hands: Ok((Hand(counts[0]), Hand(counts[1])))
HandsReturn ==
    /\ pc = "hands_scan"
    /\ pos = Len(arg)
    /\ ret' = Ok(<<state.counts[0], state.counts[1]>>)
    /\ pc' = "hands_done"
    /\ UNCHANGED <<arg, pos, state, overflow_checks, sfen_from, decoded, sfen_to>>

\* Hand::new(f) for an f that is n on Rook, m on Bishop, k on Pawn and 0 elsewhere
Hand_new3(n, m, k) ==
    [i \in 0..6 |-> IF i = PtIdx("Rook") THEN n
                    ELSE IF i = PtIdx("Bishop") THEN m
                    ELSE IF i = PtIdx("Pawn") THEN k ELSE 0]

EncHands == {Hand_new3(n, m, k) : n \in EncCounts, m \in EncCounts, k \in EncCounts}

\* encode_hands(hand_sente, hand_gote)
EncodeHandsCall ==
    /\ pc = "idle"
    /\ pc' = "hands_encoded"
    /\ \E hand_sente \in EncHands, hand_gote \in EncHands :
           /\ arg' = <<hand_sente, hand_gote>>
           /\ ret' = encode_hands(hand_sente, hand_gote)
    /\ UNCHANGED <<pos, state, overflow_checks, sfen_from, decoded, sfen_to>>

NextHands ==
    \/ DecodeHandsCall
    \/ HandsEat
    \/ HandsReturn
    \/ EncodeHandsCall

SpecHands == Init /\ [][NextHands]_vars

\* decode_move(s_mv)
DecodeMoveCall ==
    /\ pc = "idle"
    /\ pc' = "move_done"
    /\ \E s_mv \in Texts(MoveAlphabet, MaxTokLen) \cup EdgeTokens :
           /\ arg' = s_mv
           /\ ret' = decode_move(s_mv)
    /\ UNCHANGED <<pos, state, overflow_checks, sfen_from, decoded, sfen_to>>

\* the moves handed to encode_move: Move::nondrop and Move::drop with any PieceType
EncMoves ==
    {Move_nondrop(src, dst, p) : src \in 0..80, dst \in {0, 40, 80}, p \in BOOLEAN}
    \cup {Move_drop(pt, dst) : pt \in PieceType, dst \in 0..80}

\* encode_move(mv)
EncodeMoveCall ==
    /\ pc = "idle"
    /\ pc' = "move_encoded"
    /\ \E mv \in EncMoves :
           /\ arg' = mv
           /\ ret' = encode_move(mv)
    /\ UNCHANGED <<pos, state, overflow_checks, sfen_from, decoded, sfen_to>>

NextMove ==
    \/ DecodeMoveCall
    \/ EncodeMoveCall

SpecMove == Init /\ [][NextMove]_vars

(***************************************************************************)
(* decode on whole records, and the tests::roundtrip harness of lib.rs.    *)
(***************************************************************************)
MaxTail == 3

MaxBoardRows == 10

MaxVarCells == 2

MaxMoves == 2

\* Board::new(f)
Board_new(f(_, _)) == [i \in 0..80 |-> f(i % 9, i \div 9)]

BackRank ==
    <<"Lance", "Knight", "Silver", "Gold", "King", "Gold", "Silver", "Knight", "Lance">>

\* the opening position that SFEN_STARTPOS spells
StartposCell(x, y) ==
    CASE y = 0 -> Piece("Gote", BackRank[x + 1])
      [] y = 1 -> IF x = 1 THEN Piece("Gote", "Rook")
                  ELSE IF x = 7 THEN Piece("Gote", "Bishop") ELSE Empty
      [] y = 2 -> Piece("Gote", "Pawn")
      [] y = 6 -> Piece("Sente", "Pawn")
      [] y = 7 -> IF x = 1 THEN Piece("Sente", "Bishop")
                  ELSE IF x = 7 THEN Piece("Sente", "Rook") ELSE Empty
      [] y = 8 -> Piece("Sente", BackRank[x + 1])
      [] OTHER -> Empty

StartposBoard == Board_new(StartposCell)

\* a board holding every piece type of either side
AllPiecesCell(x, y) ==
    LET i == xy2idx(x, y)
    IN  IF i < 14 THEN Piece("Sente", PieceTypeSeq[i + 1])
        ELSE IF i >= 20 /\ i < 34 THEN Piece("Gote", PieceTypeSeq[i - 19])
        ELSE Empty

AllPiecesBoard == Board_new(AllPiecesCell)

EmptyBoard == [i \in 0..80 |-> Empty]

CodecCells == {Empty, Piece("Sente", "ProPawn"), Piece("Gote", "King"), Piece("Gote", "Horse")}

\* base with the first cells of row y replaced by pat
VarBoard(base, y, pat) ==
    [i \in 0..80 |-> IF i \div 9 = y /\ i % 9 < MaxVarCells THEN pat[i % 9] ELSE base[i]]

CodecBoards ==
    {VarBoard(base, y, pat) : base \in {EmptyBoard, StartposBoard}, y \in {0, 4, 8},
                              pat \in [0..(MaxVarCells - 1) -> CodecCells]}
    \cup {AllPiecesBoard}

\* Hand::new(f) over counts that need 0, 1, 2 and 3 digits
CodecHands == {Hand_new3(n, m, k) : n \in {0, 1, 255}, m \in {0, 10}, k \in {0, 2, 18}}

CodecPlies == {1, 0, -1, 100, I32_MAX, I32_MIN}

\* Move::nondrop and Move::drop with unpromoted and promoted piece types
CodecMoves ==
    { Move_nondrop(0, 80, FALSE), Move_nondrop(62, 53, TRUE),
      Move_drop("Bishop", 39), Move_drop("King", 8), Move_drop("ProPawn", 40) }

MoveSeqs == UNION {[1..k -> CodecMoves] : k \in 0..MaxMoves}

\* the (position, moves) pairs handed to encode
CodecInputs ==
    {<<Position_new(side, board, Hand_empty, Hand_new3(0, 1, 0), 1), mvs>> :
         side \in Side, board \in CodecBoards, mvs \in {<<>>, <<Move_drop("Gold", 0)>>}}
    \cup {<<Position_new("Gote", StartposBoard, hs, hg, ply), <<>>>> :
         hs \in CodecHands, hg \in CodecHands, ply \in {1, -1}}
    \cup {<<Position_new("Sente", EmptyBoard, Hand_empty, Hand_empty, ply), mvs>> :
         ply \in CodecPlies, mvs \in MoveSeqs}

Tok_7g7f == <<"7", "g", "7", "f">>

Tok_Bstar4e == <<"B", "*", "4", "e">>

Tok_8h2bplus == <<"8", "h", "2", "b", "+">>

TailTokens == {Str_moves, Tok_7g7f, Tok_Bstar4e, Tok_8h2bplus, <<"8", "h", "2", "b", "x">>}

Tails == UNION {[1..k -> TailTokens] : k \in 0..MaxTail}

\* the tokens separated by single spaces
Text(tokens) == Join(tokens, <<" ">>)

RowSamples ==
    { <<"9">>, <<"8">>, <<"4", "P", "4">>, <<>>, <<"l", "n", "s", "g", "k", "g", "s", "n", "l">>,
      <<"8", "+">> }

\* n rows, all r except the k-th, which is r2, joined by '/'
BoardString(n, k, r, r2) == Join([y \in 1..n |-> IF y = k THEN r2 ELSE r], <<"/">>)

BoardStrings ==
    {BoardString(n, k, r, r2) : n \in 1..MaxBoardRows, k \in 1..MaxBoardRows,
                                r \in {<<"9">>, <<"4", "P", "4">>}, r2 \in RowSamples}

Tok_StartBoard == split_ascii_whitespace(SFEN_STARTPOS)[2]

FieldSamples ==
    { <<b, sd, h, pl>> :
        b  \in {Tok_StartBoard},
        sd \in {<<"b">>, <<"w">>, <<"B">>},
        h  \in {<<"-">>, <<"2", "P">>, <<"K">>, <<"2", "5", "5", "P", "P">>, <<"P", "3">>},
        pl \in {<<"1">>, <<"-", "5">>, <<"+", "7">>, <<"x">>, <<"-">>,
                <<"2", "1", "4", "7", "4", "8", "3", "6", "4", "7">>,
                <<"2", "1", "4", "7", "4", "8", "3", "6", "4", "8">>,
                <<"-", "2", "1", "4", "7", "4", "8", "3", "6", "4", "8">>,
                <<"-", "2", "1", "4", "7", "4", "8", "3", "6", "4", "9">>} }

\* the texts handed to decode
DecodeInputs ==
    {Text(<<Str_startpos>> \o t) : t \in Tails}
    \cup {SFEN_STARTPOS \o (IF t = <<>> THEN <<>> ELSE <<" ">> \o Text(t)) : t \in Tails}
    \cup {Text(<<Str_sfen, b, <<"b">>, <<"-">>, <<"1">> >>) : b \in BoardStrings}
    \cup {Text(<<Str_sfen>> \o f \o t) : f \in FieldSamples, t \in {<<>>, <<Str_moves, Tok_7g7f>>}}
    \cup {Text(SubSeq(split_ascii_whitespace(SFEN_STARTPOS), 1, n)) : n \in 0..4}
    \cup { <<" ", " ">> \o Str_startpos \o <<" ", " ">> \o Str_moves \o <<" ">> \o Tok_7g7f \o <<" ">>,
           <<"p", "o", "s">>, Str_moves }

\* decode(sfen)
DecodeCall ==
    /\ pc = "idle"
    /\ pc' = "decoded"
    /\ \E sfen \in DecodeInputs :
           /\ sfen_from' = sfen
           /\ decoded' = decode(sfen)
    /\ UNCHANGED <<arg, pos, state, ret, overflow_checks, sfen_to>>

NextDecode == DecodeCall

SpecDecode == Init /\ [][NextDecode]_vars

\* encode(&pos, &mvs)
EncodeCall ==
    /\ pc = "idle"
    /\ pc' = "encoded"
    /\ \E input \in CodecInputs :
           /\ arg' = input
           /\ ret' = encode(input[1], input[2])
    /\ UNCHANGED <<pos, state, overflow_checks, sfen_from, decoded, sfen_to>>

\* tests::roundtrip on the encoder's output: `let (pos, mvs) = decode(sfen_from)?;`
RoundtripDecode ==
    /\ pc = "encoded"
    /\ ret.kind = "Ok"
    /\ sfen_from' = ret.val
    /\ decoded' = decode(ret.val)
    /\ pc' = IF decoded'.kind = "Ok" THEN "decoded" ELSE "failed"
    /\ UNCHANGED <<arg, pos, state, ret, overflow_checks, sfen_to>>

\* tests::roundtrip: `let sfen_to = encode(&pos, &mvs);`
RoundtripEncode ==
    /\ pc = "decoded"
    /\ sfen_to' = encode(decoded.val[1], decoded.val[2])
    /\ pc' = "reencoded"
    /\ UNCHANGED <<arg, pos, state, ret, overflow_checks, sfen_from, decoded>>

NextCodec ==
    \/ EncodeCall
    \/ RoundtripDecode
    \/ RoundtripEncode

SpecCodec == Init /\ [][NextCodec]_vars

(***************************************************************************)
(* Vocabulary of the properties, written without the codec's operators.    *)
(***************************************************************************)
DigitChars == <<"0", "1", "2", "3", "4", "5", "6", "7", "8", "9">>

FileChars == <<"1", "2", "3", "4", "5", "6", "7", "8", "9">>

RankChars == <<"a", "b", "c", "d", "e", "f", "g", "h", "i">>

LetterChars == <<"P", "L", "N", "S", "B", "R", "G", "K">>

LowerChars == <<"p", "l", "n", "s", "b", "r", "g", "k">>

InSeq(c, chars) == \E i \in 1..Len(chars) : chars[i] = c

\* the position of c in chars, counted from 0
IndexIn(c, chars) == (CHOOSE i \in 1..Len(chars) : chars[i] = c) - 1

\* the piece type a letter of LetterChars or LowerChars stands for
TypeOfLetter(c) ==
    IF InSeq(c, LetterChars) THEN PieceTypeSeq[IndexIn(c, LetterChars) + 1]
    ELSE PieceTypeSeq[IndexIn(c, LowerChars) + 1]

\* the letter of a hand piece of a side
HandLetter(side, pt) ==
    IF side = "Sente" THEN LetterChars[PtIdx(pt) + 1] ELSE LowerChars[PtIdx(pt) + 1]

\* the square that a file character and a rank character name
SquareOf(cx, cy) == 9 * IndexIn(cy, RankChars) + IndexIn(cx, FileChars)

\* the decimal numeral of n in 0..999
Numeral(n) ==
    IF n >= 100 THEN <<DigitChars[(n \div 100) + 1], DigitChars[((n \div 10) % 10) + 1],
                       DigitChars[(n % 10) + 1]>>
    ELSE IF n >= 10 THEN <<DigitChars[(n \div 10) + 1], DigitChars[(n % 10) + 1]>>
    ELSE <<DigitChars[n + 1]>>

RECURSIVE RowCellCount(_)
\* the number of cells a board row describes: a digit counts its value, '+'
\* nothing, every other character one cell
RowCellCount(r) ==
    IF r = <<>> THEN 0
    ELSE (IF InSeq(Head(r), FileChars) THEN IndexIn(Head(r), FileChars) + 1
          ELSE IF Head(r) = "+" THEN 0 ELSE 1) + RowCellCount(Tail(r))

\* the board string has exactly 9 rows of 9 cells each
WellShapedBoard(b) ==
    /\ Len(Split(b, "/")) = 9
    /\ \A k \in 1..Len(Split(b, "/")) : RowCellCount(Split(b, "/")[k]) = 9

RECURSIVE GroupSum(_, _, _, _)
\* the sum of the effective counts of the groups of s[i..] that end with letter;
\* pending is the count read so far
GroupSum(s, i, pending, letter) ==
    IF i > Len(s) THEN 0
    ELSE IF InSeq(s[i], DigitChars)
    THEN GroupSum(s, i + 1, 10 * pending + IndexIn(s[i], DigitChars), letter)
    ELSE (IF s[i] = letter THEN (IF pending = 0 THEN 1 ELSE pending) ELSE 0)
         + GroupSum(s, i + 1, 0, letter)

HandTypes == {"Pawn", "Lance", "Knight", "Silver", "Bishop", "Rook", "Gold"}

Unpromoted == HandTypes \cup {"King"}

RECURSIVE HandsText(_, _, _)
\* the entries of the (side, type) pairs of order[k..], each count 0 skipped, a
\* count of 1 without numeral, nothing in between
HandsText(order, hands, k) ==
    IF k > Len(order) THEN <<>>
    ELSE (IF hands[SideIdx(order[k][1]) + 1][PtIdx(order[k][2])] = 0 THEN <<>>
          ELSE (IF hands[SideIdx(order[k][1]) + 1][PtIdx(order[k][2])] = 1 THEN <<>>
                ELSE Numeral(hands[SideIdx(order[k][1]) + 1][PtIdx(order[k][2])]))
               \o <<HandLetter(order[k][1], order[k][2])>>)
         \o HandsText(order, hands, k + 1)

OutputTypes == <<"Rook", "Bishop", "Gold", "Silver", "Knight", "Lance", "Pawn">>

\* for each type, First's entry and then Second's
TypeMajorOrder ==
    [k \in 1..14 |-> <<IF k % 2 = 1 THEN "Sente" ELSE "Gote", OutputTypes[(k + 1) \div 2]>>]

\* all of First's entries and then all of Second's
SideMajorOrder ==
    [k \in 1..14 |-> <<IF k <= 7 THEN "Sente" ELSE "Gote", OutputTypes[((k - 1) % 7) + 1]>>]

\* the same kind of result and, when Ok, the same value
SameResult(a, b) == a.kind = b.kind /\ (a.kind = "Ok" => a.val = b.val)

(***************************************************************************)
(* Properties.                                                             *)
(***************************************************************************)

\* C1: whatever (position, moves) the public constructors build, the text t
\* that encode gives decodes successfully, and encoding the decoded value
\* gives t again.
RoundTripOnEncoderOutput ==
    /\ pc \in {"decoded", "failed", "reencoded"} => decoded.kind = "Ok"
    /\ pc = "reencoded" => sfen_to = Ok(sfen_from)

\* C2: a record "startpos" + T decodes to the same result as SFEN_STARTPOS + T
\* (the same position and moves, or an error in both cases), and the startpos
\* token takes only itself from the caller's tokens.
StartposEquivalence ==
    (pc = "decoded" /\ split_ascii_whitespace(sfen_from) # <<>>
     /\ Head(split_ascii_whitespace(sfen_from)) = Str_startpos)
    => /\ SameResult(decoded,
                     decode(Text(<<SFEN_STARTPOS>> \o Tail(split_ascii_whitespace(sfen_from)))))
       /\ tokens_to_pos(split_ascii_whitespace(sfen_from)).rest
              = Tail(split_ascii_whitespace(sfen_from))

\* C2 witness: "startpos moves 7g7f B*4e" has been decoded to the opening
\* position and two moves.
StartposEquivalenceWitness ==
    /\ pc = "decoded"
    /\ sfen_from = Text(<<Str_startpos, Str_moves, Tok_7g7f, Tok_Bstar4e>>)
    /\ decoded.kind = "Ok"
    /\ decoded.val[1].board = StartposBoard
    /\ decoded.val[2] = <<Move_nondrop(SquareOf("7", "g"), SquareOf("7", "f"), FALSE),
                          Move_drop("Bishop", SquareOf("4", "e"))>>

\* C3: an "sfen" record whose board string is not exactly 9 rows of 9 cells is
\* answered with a decode error: it is neither accepted nor a panic.
BoardShapeEnforced ==
    (pc = "decoded" /\ Len(split_ascii_whitespace(sfen_from)) >= 5
     /\ split_ascii_whitespace(sfen_from)[1] = Str_sfen
     /\ ~WellShapedBoard(split_ascii_whitespace(sfen_from)[2]))
    => decoded.kind = "Err"

\* C4: a board row whose scan ends with a '+' still pending is answered with a
\* decode error.
DanglingPromotionRejected ==
    (pc = "row_done" /\ pos = Len(arg) /\ state.promo) => ret.kind = "Err"

\* C5 as stated: the hands are written type by type, First's entry and then
\* Second's for each type.
HandsOrderTypeMajor ==
    (pc = "hands_encoded" /\ ~(Hand_is_empty(arg[1]) /\ Hand_is_empty(arg[2])))
    => ret = HandsText(TypeMajorOrder, arg, 1)

\* C5 as amended: the hands are written side by side, all of First's entries in
\* the order Rook, Bishop, Gold, Silver, Knight, Lance, Pawn and then all of
\* Second's in the same order; counts of 0 are skipped, nothing separates.
HandsOrderSideMajor ==
    (pc = "hands_encoded" /\ ~(Hand_is_empty(arg[1]) /\ Hand_is_empty(arg[2])))
    => ret = HandsText(SideMajorOrder, arg, 1)

\* C5 witness: both sides hold one rook and one bishop, written "RBrb".
HandsOrderWitness ==
    /\ pc = "hands_encoded"
    /\ arg = <<Hand_new3(1, 1, 0), Hand_new3(1, 1, 0)>>
    /\ ret = <<"R", "B", "r", "b">>

\* C6: the row scanner's filled cells are the cells of the accepted characters
\* and stay within 0..9; a character that would pass 9 cells, and a '+' read
\* with 9 cells filled, give a decode error and never a write outside the row;
\* an encoded row describes at most 9 cells.
RowOverflow ==
    /\ pc \in {"row_scan", "row_done"}
           => /\ state.len \in 0..9
              /\ state.len = RowCellCount(SubSeq(arg, 1, pos))
    /\ pc = "row_done"
           => /\ ret.kind # "Panic"
              /\ (\E k \in 1..Len(arg) : RowCellCount(SubSeq(arg, 1, k)) > 9)
                     => ret.kind = "Err"
              /\ (\E k \in 1..Len(arg) : arg[k] = "+" /\ RowCellCount(SubSeq(arg, 1, k - 1)) >= 9)
                     => ret.kind = "Err"
    /\ pc = "row_encoded" => ret.kind = "Ok" /\ RowCellCount(ret.val) <= 9

\* C6 witness: the row "9P" was refused at the 'P', with 9 cells filled.
RowOverflowWitness ==
    /\ pc = "row_done"
    /\ arg = <<"9", "P">>
    /\ pos = 1
    /\ state.len = 9
    /\ ret.kind = "Err"
    /\ ret.msg = "board row: overflow"

\* C7: a move token decodes to a Drop exactly when it is <letter>*<file><rank>
\* with an uppercase piece letter, to a Nondrop exactly when it is
\* <file><rank><file><rank> with an optional final '+' (is_promotion iff the '+'
\* is there), and is a decode error in every other case.
MoveTokenShape ==
    pc = "move_done" =>
        IF /\ Len(arg) = 4
           /\ InSeq(arg[1], LetterChars) /\ arg[2] = "*"
           /\ InSeq(arg[3], FileChars) /\ InSeq(arg[4], RankChars)
        THEN ret = Ok(Move_drop(TypeOfLetter(arg[1]), SquareOf(arg[3], arg[4])))
        ELSE IF /\ Len(arg) \in {4, 5}
                /\ InSeq(arg[1], FileChars) /\ InSeq(arg[2], RankChars)
                /\ InSeq(arg[3], FileChars) /\ InSeq(arg[4], RankChars)
                /\ (Len(arg) = 5 => arg[5] = "+")
        THEN ret = Ok(Move_nondrop(SquareOf(arg[1], arg[2]), SquareOf(arg[3], arg[4]),
                                   Len(arg) = 5))
        ELSE ret.kind = "Err"

\* C7 witness: "5e5e+" was decoded to a promoting Nondrop.
MoveTokenShapeWitness ==
    /\ pc = "move_done"
    /\ arg = <<"5", "e", "5", "e", "+">>
    /\ ret.kind = "Ok"
    /\ ret.val.mv = "Nondrop"
    /\ ret.val.is_promotion

\* C8: for an accepted hands string other than "-", every (side, type) count is
\* the sum of the effective counts of its groups and that sum is at most 255; a
\* sum beyond 255 is answered with a decode error, not wrapped.
HandsAccumulateExactly ==
    (pc = "hands_done" /\ arg # <<"-">>)
    => /\ ret.kind = "Ok"
           => \A side \in Side, pt \in HandTypes :
                  /\ ret.val[SideIdx(side) + 1][PtIdx(pt)]
                         = GroupSum(arg, 1, 0, HandLetter(side, pt))
                  /\ GroupSum(arg, 1, 0, HandLetter(side, pt)) <= 255
       /\ (\E side \in Side, pt \in HandTypes :
               GroupSum(arg, 1, 0, HandLetter(side, pt)) > 255)
           => ret.kind = "Err"

\* C9: a hands string other than "-" that ends with a digit is answered with a
\* decode error.
HandsEndOnLetter ==
    (pc = "hands_done" /\ arg # <<"-">> /\ InSeq(arg[Len(arg)], DigitChars))
    => ret.kind = "Err"

\* C10: for every position and every move list whose drops carry one of the 8
\* unpromoted piece types, decoding the encoder's text gives back exactly the
\* position and the moves.
DecodeLeftInverse ==
    (pc \in {"decoded", "failed", "reencoded"}
     /\ \A k \in 1..Len(arg[2]) : arg[2][k].mv = "Drop" => arg[2][k].pt \in Unpromoted)
    => decoded = Ok(arg)

\* C10 witness: the board with every piece of either side, a bishop in hand
\* and a gold drop came back from decode(encode(..)).
DecodeLeftInverseWitness ==
    /\ pc = "decoded"
    /\ arg[1].board = AllPiecesBoard
    /\ arg[1].hands[2] = Hand_new3(0, 1, 0)
    /\ arg[2] = <<Move_drop("Gold", 0)>>
    /\ decoded = Ok(arg)

\* C11: decode never aborts: for every input text the call returns Ok or a
\* decode error, never a panic (no board-row copy past the 81 cells, no
\* overflow of an 8-bit hand counter, no "internal error", no Square::new out
\* of range).
DecodeNeverAborts ==
    pc = "decoded" => decoded.kind \in {"Ok", "Err"}

====
